---------------------------- MODULE Spec2Model ----------------------------
(***************************************************************************)
(* Literature pipeline: DOI normalisation (doi_utils.py), the paginated    *)
(* Scholar search (scholar_search.py) and the PDF acquisition waterfall    *)
(* (pdf_fetcher.py).                                                       *)
(*                                                                         *)
(* Text is a sequence of one-character strings.  Python's None is the      *)
(* value None below, which no text equals.                                 *)
(***************************************************************************)
EXTENDS Integers, Sequences, FiniteSets, TLC

None == <<"None">>

Min(a, b) == IF a <= b THEN a ELSE b

RECURSIVE Pow2(_)
Pow2(n) == IF n <= 0 THEN 1 ELSE 2 * Pow2(n - 1)

Take(s, n) == IF n <= 0 THEN <<>> ELSE SubSeq(s, 1, Min(n, Len(s)))

Drop(s, n) == IF n >= Len(s) THEN <<>> ELSE SubSeq(s, n + 1, Len(s))

RECURSIVE Flatten(_)
Flatten(ss) == IF ss = <<>> THEN <<>> ELSE Head(ss) \o Flatten(Tail(ss))

Range(s) == {s[i] : i \in 1..Len(s)}

(***************************************************************************)
(* Python str primitives used by doi_utils.py                              *)
(***************************************************************************)
Whitespace == {" ", "\n", "\t"}

Digits == {"0", "1", "2", "3", "4", "5", "6", "7", "8", "9"}

LowerSeq ==
  <<"a", "b", "c", "d", "e", "f", "g", "h", "i", "j", "k", "l", "m", "n", "o", "p", "q",
    "r", "s", "t", "u", "v", "w", "x", "y", "z">>

UpperSeq ==
  <<"A", "B", "C", "D", "E", "F", "G", "H", "I", "J", "K", "L", "M", "N", "O", "P", "Q",
    "R", "S", "T", "U", "V", "W", "X", "Y", "Z">>

LowerChar(c) ==
  IF \E i \in 1..26 : UpperSeq[i] = c
  THEN LowerSeq[CHOOSE i \in 1..26 : UpperSeq[i] = c]
  ELSE c

Lower(s) == [i \in 1..Len(s) |-> LowerChar(s[i])]

RECURSIVE LStripSet(_, _)
LStripSet(s, cs) ==
  IF s # <<>> /\ Head(s) \in cs THEN LStripSet(Tail(s), cs) ELSE s

RECURSIVE RStripSet(_, _)
RStripSet(s, cs) ==
  IF s # <<>> /\ s[Len(s)] \in cs THEN RStripSet(SubSeq(s, 1, Len(s) - 1), cs) ELSE s

Strip(s) == RStripSet(LStripSet(s, Whitespace), Whitespace)

StartsWith(s, p) == Len(s) >= Len(p) /\ SubSeq(s, 1, Len(p)) = p

\* index of the first element of s that lies in cs, 0 if there is none
FirstIn(s, cs) ==
  IF \E i \in 1..Len(s) : s[i] \in cs
  THEN CHOOSE i \in 1..Len(s) : s[i] \in cs /\ \A j \in 1..(i - 1) : s[j] \notin cs
  ELSE 0

\* index of the last occurrence of c in s, 0 if there is none
LastIndexOf(s, c) ==
  IF \E i \in 1..Len(s) : s[i] = c
  THEN CHOOSE i \in 1..Len(s) : s[i] = c /\ \A j \in (i + 1)..Len(s) : s[j] # c
  ELSE 0

\* str.replace(old, new): leftmost non-overlapping occurrences
RECURSIVE Replace(_, _, _)
Replace(s, old, new) ==
  IF s = <<>> THEN <<>>
  ELSE IF StartsWith(s, old) THEN new \o Replace(Drop(s, Len(old)), old, new)
  ELSE <<Head(s)>> \o Replace(Tail(s), old, new)

\* needle in s
Contains(s, needle) ==
  \E i \in 1..(Len(s) - Len(needle) + 1) : SubSeq(s, i, i + Len(needle) - 1) = needle

\* str.isdigit()
IsDigit(s) == s # <<>> /\ \A i \in 1..Len(s) : s[i] \in Digits

\* length of the run of elements of cs (or of non-cs when neg) starting at s[i]
RECURSIVE RunLen(_, _, _, _)
RunLen(s, i, cs, neg) ==
  IF i > Len(s) \/ ((s[i] \in cs) = neg) THEN 0 ELSE 1 + RunLen(s, i + 1, cs, neg)


(***************************************************************************)
(* doi_utils.py                                                            *)
(***************************************************************************)
MinRegistrant == 4

MaxRegistrant == 9

\* 10\.\d{4,9}/[^\s]+ anchored at position i of text: the index of the last
\* character of the match, 0 when there is no match at i.  The digit run
\* must end at the "/", so its whole length has to lie in 4..9.
DoiMatchEnd(text, i) ==
  LET k == RunLen(text, i + 3, Digits, FALSE)
      j == i + 3 + k
      n == RunLen(text, j + 1, Whitespace, TRUE)
  IN IF /\ i + 2 <= Len(text)
        /\ SubSeq(text, i, i + 2) = <<"1", "0", ".">>
        /\ k >= MinRegistrant
        /\ k <= MaxRegistrant
        /\ j <= Len(text)
        /\ text[j] = "/"
        /\ n >= 1
     THEN j + n
     ELSE 0

\* the pattern without its end anchor
DOI_PATTERN_Unanchored(s) == s # <<>> /\ DoiMatchEnd(s, 1) > 0

\* DOI_PATTERN.match(s): ^10\.\d{4,9}/[^\s]+$
DOI_PATTERN(s) == s # <<>> /\ DoiMatchEnd(s, 1) = Len(s)

\* DOI_PREFIX_PATTERN.search(text).group(0), None when nothing matches
DOI_PREFIX_PATTERN(text) ==
  LET hits == {i \in 1..Len(text) : DoiMatchEnd(text, i) > 0}
  IN IF hits = {} THEN None
     ELSE LET i == CHOOSE h \in hits : \A g \in hits : h <= g
          IN SubSeq(text, i, DoiMatchEnd(text, i))

prefixes ==
  << <<"h","t","t","p","s",":","/","/","d","o","i",".","o","r","g","/">>,
     <<"h","t","t","p",":","/","/","d","o","i",".","o","r","g","/">>,
     <<"h","t","t","p","s",":","/","/","d","x",".","d","o","i",".","o","r","g","/">>,
     <<"h","t","t","p",":","/","/","d","x",".","d","o","i",".","o","r","g","/">>,
     <<"d","o","i",":">>,
     <<"D","O","I",":">> >>

\* the loop over prefixes: the first one that matches is cut, then break
StripPrefix(doi) ==
  LET hit == {p \in 1..Len(prefixes) : StartsWith(Lower(doi), Lower(prefixes[p]))}
  IN IF hit = {} THEN doi
     ELSE LET p == CHOOSE h \in hit : \A g \in hit : h <= g
          IN Drop(doi, Len(prefixes[p]))

\* re.split(r'[&?]', doi)[0]
SplitQuery(doi) ==
  LET i == FirstIn(doi, {"&", "?"})
  IN IF i = 0 THEN doi ELSE SubSeq(doi, 1, i - 1)

\* the fragment rule without its length test
StripFragmentAnyLength(doi) ==
  LET i == LastIndexOf(doi, "/")
      suffix == Drop(doi, i)
  IN IF i > 0 /\ IsDigit(suffix) THEN SubSeq(doi, 1, i - 1) ELSE doi

\* the trailing numeric fragment rule (parts = doi.rsplit('/', 1))
StripFragment(doi) ==
  LET i == LastIndexOf(doi, "/")
      suffix == Drop(doi, i)
  IN IF i > 0 /\ IsDigit(suffix) /\ 6 <= Len(suffix) /\ Len(suffix) <= 8
     THEN SubSeq(doi, 1, i - 1)
     ELSE doi

clean_doi(doi) ==
  IF doi = None \/ doi = <<>> THEN None
  ELSE LET d1 == StripPrefix(Strip(doi))
           d2 == SplitQuery(d1)
           d3 == Replace(d2, <<"&","a","m","p",";">>, <<"&">>)
           d4 == RStripSet(d3, {".", ",", ";", ":", ")"})
           d5 == StripFragment(d4)
       IN IF d5 = <<>> THEN None ELSE d5

extract_doi(text) ==
  IF text = None \/ text = <<>> THEN None
  ELSE LET m == DOI_PREFIX_PATTERN(text)
       IN IF m = None THEN None ELSE clean_doi(m)

is_valid_doi(doi) ==
  IF doi = None \/ doi = <<>> THEN FALSE ELSE DOI_PATTERN(Strip(doi))

normalize_doi(doi) ==
  LET extracted == IF StartsWith(Strip(doi), <<"1", "0", ".">>) THEN doi ELSE extract_doi(doi)
      cleaned == clean_doi(IF extracted = None \/ extracted = <<>> THEN doi ELSE extracted)
  IN IF cleaned = None THEN None
     ELSE IF ~is_valid_doi(cleaned) THEN None
     ELSE cleaned

(***************************************************************************)
(* State.  One group of variables per entry point:                         *)
(*   search_scholar             pc .. returned                             *)
(*   _download_pdf (called alone) d_calls .. d_before                      *)
(*   fetch_pdf                  f_pc .. outcome                            *)
(*   run_pipeline               p_pc .. p_ret                              *)
(*   doi_utils.py (called alone) n_pc .. n_again                           *)
(*   a request through _build_session()  r_pc .. r_result                  *)
(*   _safe_filename (called alone)  sf_pc .. sf_name                       *)
(***************************************************************************)
VARIABLES
  pc,           \* search_scholar: "call", "loop", "break", "done", "raised"
  max_results,  \* the argument
  results,      \* accumulated entries
  start,        \* offset of the next request
  attempts,     \* consecutive unsuccessful attempts
  reqLog,       \* offsets requested so far, in order
  served,       \* the pages the server answered with and the parser accepted
  lastResp,     \* the response of the last request, NoResp before the first
  lastSleep,    \* the last time.sleep: [kind, tenths]
  returned,     \* the return value, None until search_scholar returns
  d_file,       \* _download_pdf called alone: the file at destination
  d_before,     \* the file before the last call
  d_resp,       \* the response the last call got
  d_ok,         \* the call's return value
  d_calls,      \* number of calls made: 0 or 1
  f_pc,         \* fetch_pdf: "call", "resolver", "candidates", "mirrors", "link", "done", "raised"
  doi,          \* the argument
  title,        \* the argument
  config,       \* the configuration file: [exists, unpaywall_email, scihub_mirrors]
  cleaned_doi,  \* normalize_doi(doi)
  cfgLoaded,    \* _load_config has read the file
  sessionBuilt, \* _build_session has run
  payload,      \* _fetch_from_unpaywall: <<the resolver's JSON>> until the first candidate is tried, else <<>>
  deduped_urls, \* _fetch_from_unpaywall: the candidate list of the last answer
  ci,           \* index of the candidate tried next
  mi,           \* _fetch_from_scihub: index of the mirror tried next
  dest_file,    \* the file at destination
  netLog,       \* the requests issued so far, in order: [req, to, res]
  outcome,      \* the return value, None until fetch_pdf returns
  p_pc,         \* run_pipeline: "call", "paper", "add", "done", "raised"
  p_config,     \* the configuration file exists
  collection,   \* the argument: None or a collection name
  papers,       \* what search_scholar returned
  p_i,          \* place in papers of the record the for loop is at
  pdf_path,     \* of the record in process
  source,       \* of the record in process
  pdf_success_count,
  zotero_success_count,
  fetchLog,     \* the fetch_pdf calls made so far, in order
  addLog,       \* the add_paper calls made so far, in order
  summary,      \* the counts reported: <<>> until the summary is printed
  p_ret,        \* the return value, None until run_pipeline returns
  n_pc,         \* doi_utils: "input", then the name of the function that was called
  n_parts,      \* how the argument was put together: [pad, w, core, q]
  n_text,       \* the argument
  n_out,        \* what clean_doi, extract_doi or normalize_doi returned
  n_valid,      \* what is_valid_doi returned
  n_again,      \* what the same function returned when called on n_out
  r_pc,         \* a request through the session: "send", "done"
  r_method,     \* its HTTP method
  r_total,      \* the Retry object's counters: total,
  r_connect,    \*   connect,
  r_read,       \*   read,
  r_status,     \*   status
  r_history,    \* what each attempt made so far came back with, in order
  r_result,     \* what the caller gets: "response", or the exception raised
  sf_pc,        \* _safe_filename called alone: "input", "done"
  sf_title,     \* the argument title
  sf_doi,       \* the argument doi
  sf_name       \* the return value, None until _safe_filename returns

dvars == <<d_file, d_before, d_resp, d_ok, d_calls>>

fvars == <<f_pc, doi, title, config, cleaned_doi, cfgLoaded, sessionBuilt, payload,
           deduped_urls, ci, mi, dest_file, netLog, outcome>>

svars == <<pc, max_results, results, start, attempts, reqLog, served, lastResp,
           lastSleep, returned>>

pvars == <<p_pc, p_config, collection, papers, p_i, pdf_path, source, pdf_success_count,
           zotero_success_count, fetchLog, addLog, summary, p_ret>>

nvars == <<n_pc, n_parts, n_text, n_out, n_valid, n_again>>

rvars == <<r_pc, r_method, r_total, r_connect, r_read, r_status, r_history, r_result>>

sfvars == <<sf_pc, sf_title, sf_doi, sf_name>>

vars == <<svars, dvars, fvars, pvars, nvars, rvars, sfvars>>

\* what each entry point leaves alone: the state of the others
notSearch == <<dvars, fvars, pvars, nvars, rvars, sfvars>>

notDownload == <<svars, fvars, pvars, nvars, rvars, sfvars>>

notFetch == <<svars, dvars, pvars, nvars, rvars, sfvars>>

notPipeline == <<svars, dvars, fvars, nvars, rvars, sfvars>>

notDoi == <<svars, dvars, fvars, pvars, rvars, sfvars>>

notSession == <<svars, dvars, fvars, pvars, nvars, sfvars>>

notFilename == <<svars, dvars, fvars, pvars, nvars, rvars>>

(***************************************************************************)
(* scholar_search.py: search_scholar                                       *)
(***************************************************************************)
MaxResults == 3      \* largest max_results tried

MaxPageLen == 2      \* largest number of entries a page parses to

max_attempts == 4

PageStep == 10

\* time is counted in tenths of a second
BackoffCap == 300

JitterMin == 2

JitterMax == 15

PoliteMin == 10

PoliteMax == 20

\* the exception classes session.get and raise_for_status raise; all of them
\* derive from requests.RequestException
RequestException == {"ConnectionError", "Timeout", "RetryError", "HTTPError"}

Statuses == {200, 404, 429, 503}

\* what one session.get can come back with: an exception, or a response with
\* a status, a body that may hold a rate-limit phrase, and n parsable entries
Responses ==
  [exc : {"ConnectionError", "Timeout", "RetryError"}, status : {0}, marker : {FALSE}, n : {0}]
  \cup [exc : {"none"}, status : Statuses, marker : BOOLEAN, n : 0..MaxPageLen]

\* response.raise_for_status()
RaisesForStatus(resp) == resp.status >= 400

\* the try block of the loop: the exception it ends with, "none" if it passes
TryGet(resp) ==
  IF resp.exc # "none" THEN resp.exc
  ELSE IF RaisesForStatus(resp) THEN "HTTPError"
  ELSE "none"

\* a handler that catches HTTP errors only
CaughtHTTPErrorOnly(exc) == exc = "HTTPError"

\* except requests.RequestException
Caught(exc) == exc \in RequestException

_is_rate_limited(resp) == resp.marker

\* _parse_results on the page at offset o: its entries in the page's ranking
_parse_results(resp, o) == [i \in 1..resp.n |-> <<o, i>>]

\* the list returned whole
TruncateNone(rs, n) == rs

\* results[:max_results]
Truncate(rs, n) == Take(rs, n)

\* the page put in front of the list
ExtendFront(rs, page) == page \o rs

\* results.extend(page_results)
Extend(rs, page) == rs \o page

\* a wait that grows by one second per attempt
RetryWaitLinear(a) == 10 * (a + 1)

\* line 139: 2 ** attempts, in tenths of a second
RetryWait(a) == 10 * Pow2(a)

\* the offset moved on by one result
NextStartByOne(o) == o + 1

\* line 158
NextStart(o) == o + PageStep

\* an empty page taken for one more page to ask for
AfterEmptyPageGoOn == "loop"

\* lines 153-155: break
AfterEmptyPage == "break"

LoopCondNoAttemptLimit == Len(results) < max_results

LoopCond == Len(results) < max_results /\ attempts < max_attempts

\* the draws of random.uniform that are followed: both ends of each range
Jitters == {JitterMin, JitterMax}

Pauses == {PoliteMin, PoliteMax}

NoSleep == [kind |-> "none", tenths |-> 0]

NoResp == [exc |-> "unsent", status |-> 0, marker |-> FALSE, n |-> 0]

SearchInit ==
  /\ pc = "call"
  /\ max_results \in -1..MaxResults
  /\ results = <<>>
  /\ start = 0
  /\ attempts = 0
  /\ reqLog = <<>>
  /\ served = <<>>
  /\ lastResp = NoResp
  /\ lastSleep = NoSleep
  /\ returned = None

\* lines 121-128
SearchCall ==
  /\ UNCHANGED notSearch
  /\ pc = "call"
  /\ IF max_results <= 0
     THEN pc' = "done" /\ returned' = <<>>
     ELSE pc' = "loop" /\ returned' = returned
  /\ UNCHANGED <<max_results, results, start, attempts, reqLog, served, lastResp, lastSleep>>

\* lines 135-143: the request raised
RequestFailed ==
  /\ UNCHANGED notSearch
  /\ pc = "loop"
  /\ LoopCond
  /\ \E resp \in Responses :
       /\ TryGet(resp) # "none"
       /\ reqLog' = Append(reqLog, start)
       /\ lastResp' = resp
       /\ IF Caught(TryGet(resp))
          THEN /\ lastSleep' = [kind |-> "retry", tenths |-> RetryWait(attempts)]
               /\ attempts' = attempts + 1
               /\ pc' = pc
          ELSE /\ pc' = "raised"
               /\ UNCHANGED <<lastSleep, attempts>>
  /\ UNCHANGED <<max_results, results, start, served, returned>>

\* lines 145-150
RateLimited ==
  /\ UNCHANGED notSearch
  /\ pc = "loop"
  /\ LoopCond
  /\ \E resp \in Responses, jitter \in Jitters :
       /\ TryGet(resp) = "none"
       /\ resp.status = 429 \/ _is_rate_limited(resp)
       /\ reqLog' = Append(reqLog, start)
       /\ lastResp' = resp
       /\ lastSleep' = [kind |-> "backoff",
                        tenths |-> Min(BackoffCap, 10 * Pow2(attempts) + jitter)]
       /\ attempts' = attempts + 1
  /\ UNCHANGED <<pc, max_results, results, start, served, returned>>

\* lines 152-155
EmptyPage ==
  /\ UNCHANGED notSearch
  /\ pc = "loop"
  /\ LoopCond
  /\ \E resp \in Responses :
       /\ TryGet(resp) = "none"
       /\ ~(resp.status = 429 \/ _is_rate_limited(resp))
       /\ _parse_results(resp, start) = <<>>
       /\ reqLog' = Append(reqLog, start)
       /\ lastResp' = resp
       /\ pc' = AfterEmptyPage
  /\ UNCHANGED <<max_results, results, start, attempts, served, lastSleep, returned>>

\* lines 152-160
PageParsed ==
  /\ UNCHANGED notSearch
  /\ pc = "loop"
  /\ LoopCond
  /\ \E resp \in Responses, pause \in Pauses :
       /\ TryGet(resp) = "none"
       /\ ~(resp.status = 429 \/ _is_rate_limited(resp))
       /\ _parse_results(resp, start) # <<>>
       /\ reqLog' = Append(reqLog, start)
       /\ lastResp' = resp
       /\ served' = Append(served, [offset |-> start, entries |-> _parse_results(resp, start)])
       /\ results' = Extend(results, _parse_results(resp, start))
       /\ start' = NextStart(start)
       /\ attempts' = 0
       /\ lastSleep' = [kind |-> "polite", tenths |-> pause]
  /\ UNCHANGED <<pc, max_results, returned>>

\* line 162
SearchReturn ==
  /\ UNCHANGED notSearch
  /\ \/ pc = "loop" /\ ~LoopCond
     \/ pc = "break"
  /\ returned' = Truncate(results, max_results)
  /\ pc' = "done"
  /\ UNCHANGED <<max_results, results, start, attempts, reqLog, served, lastResp, lastSleep>>

SearchNext ==
  \/ SearchCall
  \/ RequestFailed
  \/ RateLimited
  \/ EmptyPage
  \/ PageParsed
  \/ SearchReturn


(***************************************************************************)
(* pdf_fetcher.py: _download_pdf                                           *)
(***************************************************************************)
MaxTail == 1         \* longest body tail after the five leading bytes

SniffLen == 5

Magic == <<"%", "P", "D", "F", "-">>

\* no file at the path
NoFile == <<"absent">>

OldFile == <<"o", "l", "d">>

SeqsUpTo(S, n) == UNION {[1..k -> S] : k \in 0..n}

Heads ==
  {<<>>, <<"%", "P", "D", "F">>, Magic, <<"%", "P", "D", "F", "x">>, <<"%", "p", "d", "f", "-">>}

Bodies == {h \o t : h \in Heads, t \in SeqsUpTo({"x", "y"}, MaxTail)}

\* Content-Type header values; the empty one is a missing header
CTypes ==
  {<<>>, <<"t", "e", "x", "t", "/", "h", "t", "m", "l">>,
   <<"a", "/", "p", "d", "f">>, <<"A", "/", "P", "D", "F">>}

\* what a streamed GET can come back with: session.get raises (exc), or a
\* response with a status, a content type and a body; failAt = k >= 0 breaks
\* the stream with a transport error after k bytes, failAt = -1 never
DlResponses ==
  [exc : {"ConnectionError", "Timeout"}, status : {0}, ctype : {<<>>}, body : {<<>>}, failAt : {-1}]
  \cup [exc : {"none"}, status : {404, 503}, ctype : CTypes, body : {<<>>}, failAt : {-1}]
  \cup {r \in [exc : {"none"}, status : {200}, ctype : CTypes, body : Bodies,
               failAt : -1..(SniffLen + MaxTail)] : r.failAt <= Len(r.body)}

\* "pdf" in content_type, content_type being the lowered header
DeclaredPdf(ctype) == Contains(Lower(ctype), <<"p", "d", "f">>)

\* next(response.iter_content(chunk_size=5), b"")
FirstBytes(body) == Take(body, SniffLen)

\* the sniffed bytes are dropped from the file
SniffedWriteRest(first, rest) == rest

\* lines 69-73: the file holds the sniffed bytes, then the remaining chunks
SniffedWrite(first, rest) == first \o rest

\* line 65
IsMagic(first) == first = Magic

\* _download_pdf(session, url, destination) on the response resp, the file at
\* destination being file: [ok, file].  The bodies are shorter than one
\* 8192-byte chunk, so a broken stream delivers no chunk of the remainder.
_download_pdf(resp, file) ==
  IF resp.exc # "none" \/ resp.status >= 400
  THEN [ok |-> FALSE, file |-> file]
  ELSE IF ~DeclaredPdf(resp.ctype)
  THEN IF resp.failAt >= 0 /\ resp.failAt < SniffLen
       THEN [ok |-> FALSE, file |-> file]
       ELSE IF ~IsMagic(FirstBytes(resp.body))
       THEN [ok |-> FALSE, file |-> file]
       ELSE IF resp.failAt >= 0
       THEN [ok |-> FALSE, file |-> FirstBytes(resp.body)]
       ELSE [ok |-> TRUE, file |-> SniffedWrite(FirstBytes(resp.body), Drop(resp.body, SniffLen))]
  ELSE IF resp.failAt >= 0
  THEN [ok |-> FALSE, file |-> <<>>]
  ELSE [ok |-> TRUE, file |-> resp.body]

NoDlResp == [exc |-> "unsent", status |-> 0, ctype |-> <<>>, body |-> <<>>, failAt |-> -1]

DownloadInit ==
  /\ d_file \in {NoFile, OldFile}
  /\ d_before = d_file
  /\ d_resp = NoDlResp
  /\ d_ok = FALSE
  /\ d_calls = 0

\* one call of _download_pdf, on a destination that holds a file or none
Download ==
  /\ UNCHANGED notDownload
  /\ d_calls = 0
  /\ \E resp \in DlResponses :
       /\ d_resp' = resp
       /\ d_before' = d_file
       /\ d_ok' = _download_pdf(resp, d_file).ok
       /\ d_file' = _download_pdf(resp, d_file).file
  /\ d_calls' = d_calls + 1

(***************************************************************************)
(* pdf_fetcher.py: fetch_pdf, _fetch_from_unpaywall, _fetch_from_scihub    *)
(***************************************************************************)
MaxLocations == 1    \* most oa_locations entries in a resolver answer

MaxMirrors == 4      \* most mirrors configured

TitleCap == 100

DoiCap == 50

Letters == Range(LowerSeq) \cup Range(UpperSeq)

\* [A-Za-z0-9._-]
SafeChars == Letters \cup Digits \cup {".", "_", "-"}

\* re.sub(r"[^A-Za-z0-9._-]+", "_", s)
\* (a character outside the class becomes "_" where its run starts and is dropped
\* elsewhere; "" marks a dropped place)
SubUnsafe(s) ==
  LET marked == [i \in 1..Len(s) |->
                   IF s[i] \in SafeChars THEN s[i]
                   ELSE IF i > 1 /\ s[i - 1] \notin SafeChars THEN "" ELSE "_"]
      Kept(c) == c # ""
  IN SelectSeq(marked, Kept)

_safe_filename_uncut(t, d) ==
  LET whole == SubUnsafe(Strip(t))
      compact_title == IF whole = <<>> THEN <<"p", "a", "p", "e", "r">> ELSE whole
      compact_doi == Take(SubUnsafe(Strip(d)), DoiCap)
  IN compact_title \o <<"_">> \o compact_doi \o <<".", "p", "d", "f">>

_safe_filename(t, d) ==
  LET cut == Take(SubUnsafe(Strip(t)), TitleCap)
      compact_title == IF cut = <<>> THEN <<"p", "a", "p", "e", "r">> ELSE cut
      compact_doi == Take(SubUnsafe(Strip(d)), DoiCap)
  IN compact_title \o <<"_">> \o compact_doi \o <<".", "p", "d", "f">>

\* download_dir / filename
Destination(t, d) == <<"pdf_download_dir", _safe_filename(t, d)>>

\* the identifiers fetch_pdf is called with
FetchDois ==
  { <<"1", "0", ".", "1", "2", "3", "4", "/", "a", "b">>,
    <<"d", "o", "i", ":", "1", "0", ".", "1", "2", "3", "4", "/", "a", "b">>,
    <<"1", "0", ".", "1", "2", "3", "4", "/", "a", "b", "?", "x">>,
    <<"1", "0", ".", "1", "2", "3", "4", "/", "1", "2", "3", "4", "5", "6">>,
    <<"1", "0", ".", "1", "2", "3", "/", "a", "b">>,
    <<"1", "0", ".", "1", "2", "3", "4", "/">>,
    <<"n", "o", "t", "-", "a", "-", "d", "o", "i">>,
    <<>> }

FetchTitles == { <<"A", " ", "b">> }

NoConfig == [exists |-> FALSE, unpaywall_email |-> <<>>, scihub_mirrors |-> <<>>]

\* the mirrors are named by their place in the configured list
Configs ==
  {NoConfig}
  \cup [exists : {TRUE},
        unpaywall_email : {<<>>, <<"m", "@", "x">>},
        scihub_mirrors : {[i \in 1..n |-> i] : n \in 0..MaxMirrors}]

Urls == {"u1", "u2"}

\* an open-access location; "" is a missing, null or empty field
Locations == [url_for_pdf : Urls \cup {""}, url : Urls \cup {""}]

NoLocation == [url_for_pdf |-> "", url |-> ""]

\* the JSON objects the resolver answers with; best_oa_location is
\* NoLocation when null or missing
Payloads ==
  [best_oa_location : Locations, oa_locations : SeqsUpTo(Locations, MaxLocations)]

\* what the resolver lookup can come back with: a failed request, a body
\* that is no JSON (response.json() raises requests' JSONDecodeError, a
\* RequestException, or before requests 2.27 a plain ValueError), JSON that is
\* no object, an object whose oa_locations is null, or an object as above
ResolverResponses ==
  [kind : {"ConnectionError", "Timeout", "HTTPError", "JSONDecodeError", "ValueError",
           "not_object", "oa_null"},
   payload : {None}]
  \cup [kind : {"json"}, payload : Payloads]

\* the exceptions lines 94-98 can end with that line 98 catches
ResolverCaught == {"ConnectionError", "Timeout", "HTTPError", "JSONDecodeError"}

\* the answers that make lines 97-108 raise past the except clause:
\* ValueError, AttributeError on payload.get, TypeError on iterating None
ResolverRaises == {"ValueError", "not_object", "oa_null"}

\* the loops of lines 104-111 over one location
LocationUrls(loc) ==
  (IF loc.url_for_pdf # "" THEN <<loc.url_for_pdf>> ELSE <<>>)
  \o (IF loc.url # "" THEN <<loc.url>> ELSE <<>>)

\* lines 102-111
CandidateUrls(p) ==
  LocationUrls(p.best_oa_location)
  \o Flatten([i \in 1..Len(p.oa_locations) |-> LocationUrls(p.oa_locations[i])])

\* a dedupe that keeps the last occurrence of each URL
RECURSIVE DedupeKeepLast(_)
DedupeKeepLast(us) ==
  IF us = <<>> THEN <<>>
  ELSE IF Head(us) \in Range(Tail(us)) THEN DedupeKeepLast(Tail(us))
  ELSE <<Head(us)>> \o DedupeKeepLast(Tail(us))

\* list(dict.fromkeys(candidate_urls))
RECURSIVE Dedupe(_)
Dedupe(us) ==
  IF us = <<>> THEN <<>>
  ELSE IF us[Len(us)] \in Range(SubSeq(us, 1, Len(us) - 1))
  THEN Dedupe(SubSeq(us, 1, Len(us) - 1))
  ELSE Dedupe(SubSeq(us, 1, Len(us) - 1)) \o <<us[Len(us)]>>

\* the responses the candidate and link downloads are tried on: one or two
\* for each path through _download_pdf
FetchResponses ==
  {r \in DlResponses :
     /\ r.exc \in {"none", "Timeout"}
     /\ r.status \in {0, 200, 404}
     /\ r.ctype \in {<<"t", "e", "x", "t", "/", "h", "t", "m", "l">>, <<"a", "/", "p", "d", "f">>}
     /\ r.status = 404 => r.ctype # <<"a", "/", "p", "d", "f">>
     /\ r.status = 200 => r.body \in {Magic \o <<"x">>, <<"%", "P", "D", "F", "x">>}
     /\ r.failAt \in {-1, 0, SniffLen}
     /\ r.failAt = 0 => (r.body = Magic \o <<"x">> /\ ~DeclaredPdf(r.ctype))}

\* what a mirror's lookup page can come back with: an exception or an error
\* status, a PDF payload, or an HTML page with or without a PDF link
MirrorResponses ==
  [exc : {"ConnectionError"}, status : {0}, ctype : {<<>>}, body : {<<>>}, link : {FALSE}]
  \cup [exc : {"none"}, status : {404}, ctype : {<<>>}, body : {<<>>}, link : {FALSE}]
  \cup [exc : {"none"}, status : {200}, ctype : {<<"a", "/", "p", "d", "f">>},
        body : {Magic \o <<"y">>}, link : {FALSE}]
  \cup [exc : {"none"}, status : {200}, ctype : {<<"t", "e", "x", "t", "/", "h", "t", "m", "l">>},
        body : {<<"h">>}, link : BOOLEAN]

Fail == <<None, None>>

\* a request, whom it went to and what came of it
Req(req, to, res) == [req |-> req, to |-> to, res |-> res]

\* the resolver's success reported under the mirrors' tag
ResolverTagWrong == "sci-hub"

\* line 212
ResolverTag == "unpaywall"

\* line 216
MirrorTag == "sci-hub"

\* the test is dropped
SkipsNever(cleaned) == FALSE

\* line 194
Skips(cleaned) == cleaned = None \/ cleaned = <<>> \/ ~is_valid_doi(cleaned)

\* the resolver is asked whatever the configuration says
UsesResolverAlways(email) == TRUE

\* line 210: unpaywall_email and ...
UsesResolver(email) == email # <<>>

FetchInit ==
  /\ f_pc = "call"
  /\ doi \in FetchDois
  /\ title \in FetchTitles
  /\ config \in Configs
  /\ cleaned_doi = None
  /\ cfgLoaded = FALSE
  /\ sessionBuilt = FALSE
  /\ payload = <<>>
  /\ deduped_urls = <<>>
  /\ ci = 0
  /\ mi = 0
  /\ dest_file \in {NoFile, OldFile}
  /\ netLog = <<>>
  /\ outcome = None

\* lines 193-210: up to the first request
FetchCall ==
  /\ UNCHANGED notFetch
  /\ f_pc = "call"
  /\ cleaned_doi' = normalize_doi(doi)
  /\ IF Skips(cleaned_doi')
     THEN /\ f_pc' = "done"
          /\ outcome' = Fail
          /\ UNCHANGED <<cfgLoaded, sessionBuilt, mi>>
     ELSE IF ~config.exists
     THEN /\ f_pc' = "raised"
          /\ UNCHANGED <<outcome, cfgLoaded, sessionBuilt, mi>>
     ELSE /\ cfgLoaded' = TRUE
          /\ sessionBuilt' = TRUE
          /\ outcome' = outcome
          /\ IF UsesResolver(config.unpaywall_email)
             THEN f_pc' = "resolver" /\ mi' = mi
             ELSE f_pc' = "mirrors" /\ mi' = 1
  /\ UNCHANGED <<doi, title, config, payload, deduped_urls, ci, dest_file, netLog>>

\* _fetch_from_unpaywall, lines 93-116: the lookup and the candidate list
ResolverLookup ==
  /\ UNCHANGED notFetch
  /\ f_pc = "resolver"
  /\ \E r \in ResolverResponses :
       /\ netLog' = Append(netLog, Req("resolver", cleaned_doi,
                                       IF r.kind = "json" THEN "json" ELSE "failed"))
       /\ IF r.kind \in ResolverRaises
          THEN /\ f_pc' = "raised"
               /\ UNCHANGED <<payload, deduped_urls, ci, mi>>
          ELSE IF r.kind \in ResolverCaught
          THEN /\ f_pc' = "mirrors"
               /\ mi' = 1
               /\ UNCHANGED <<payload, deduped_urls, ci>>
          ELSE /\ deduped_urls' = Dedupe(CandidateUrls(r.payload))
               /\ IF deduped_urls' = <<>>
                  THEN f_pc' = "mirrors" /\ mi' = 1 /\ ci' = ci /\ payload' = <<>>
                  ELSE f_pc' = "candidates" /\ mi' = mi /\ ci' = 1 /\ payload' = <<r.payload>>
  /\ UNCHANGED <<doi, title, config, cleaned_doi, cfgLoaded, sessionBuilt, dest_file, outcome>>

\* _fetch_from_unpaywall, lines 118-123, and lines 211-212 of fetch_pdf
TryCandidate ==
  /\ UNCHANGED notFetch
  /\ f_pc = "candidates"
  /\ \E resp \in FetchResponses :
       LET r == _download_pdf(resp, dest_file)
       IN /\ netLog' = Append(netLog, Req("candidate", deduped_urls[ci],
                                          IF r.ok THEN "saved" ELSE "failed"))
          /\ dest_file' = r.file
          /\ IF r.ok
             THEN /\ f_pc' = "done"
                  /\ outcome' = <<Destination(title, cleaned_doi), ResolverTag>>
                  /\ payload' = <<>>
                  /\ UNCHANGED <<ci, mi>>
             ELSE IF ci < Len(deduped_urls)
             THEN /\ ci' = ci + 1
                  /\ payload' = <<>>
                  /\ UNCHANGED <<f_pc, outcome, mi>>
             ELSE /\ f_pc' = "mirrors"
                  /\ mi' = 1
                  /\ payload' = <<>>
                  /\ UNCHANGED <<ci, outcome>>
  /\ UNCHANGED <<doi, title, config, cleaned_doi, cfgLoaded, sessionBuilt, deduped_urls>>

\* the mirror after this one
NextMirrorSkip(i) == i + 2

\* the for loop of line 152 moving on
NextMirror(i) == i + 1

\* _fetch_from_scihub, lines 152-173, and lines 215-216 of fetch_pdf
MirrorLookup ==
  /\ UNCHANGED notFetch
  /\ f_pc = "mirrors"
  /\ mi <= Len(config.scihub_mirrors)
  /\ \E resp \in MirrorResponses :
       /\ netLog' = Append(netLog, Req("mirror", config.scihub_mirrors[mi],
                                       IF resp.exc # "none" \/ resp.status >= 400 THEN "failed"
                                       ELSE IF DeclaredPdf(resp.ctype) THEN "saved"
                                       ELSE IF resp.link THEN "link" ELSE "failed"))
       /\ IF resp.exc # "none" \/ resp.status >= 400
          THEN mi' = NextMirror(mi) /\ UNCHANGED <<f_pc, dest_file, outcome>>
          ELSE IF DeclaredPdf(resp.ctype)
          THEN /\ dest_file' = resp.body
               /\ f_pc' = "done"
               /\ outcome' = <<Destination(title, cleaned_doi), MirrorTag>>
               /\ mi' = mi
          ELSE IF ~resp.link
          THEN mi' = NextMirror(mi) /\ UNCHANGED <<f_pc, dest_file, outcome>>
          ELSE f_pc' = "link" /\ UNCHANGED <<mi, dest_file, outcome>>
  /\ UNCHANGED <<doi, title, config, cleaned_doi, cfgLoaded, sessionBuilt, payload,
                 deduped_urls, ci>>

\* _fetch_from_scihub, lines 175-176, and lines 215-216 of fetch_pdf
MirrorDownload ==
  /\ UNCHANGED notFetch
  /\ f_pc = "link"
  /\ \E resp \in FetchResponses :
       LET r == _download_pdf(resp, dest_file)
       IN /\ netLog' = Append(netLog, Req("link", config.scihub_mirrors[mi],
                                          IF r.ok THEN "saved" ELSE "failed"))
          /\ dest_file' = r.file
          /\ IF r.ok
             THEN /\ f_pc' = "done"
                  /\ outcome' = <<Destination(title, cleaned_doi), MirrorTag>>
                  /\ mi' = mi
             ELSE /\ f_pc' = "mirrors"
                  /\ mi' = NextMirror(mi)
                  /\ outcome' = outcome
  /\ UNCHANGED <<doi, title, config, cleaned_doi, cfgLoaded, sessionBuilt, payload,
                 deduped_urls, ci>>

\* lines 178 and 218-219: every mirror has been tried
FetchFailed ==
  /\ UNCHANGED notFetch
  /\ f_pc = "mirrors"
  /\ mi > Len(config.scihub_mirrors)
  /\ f_pc' = "done"
  /\ outcome' = Fail
  /\ UNCHANGED <<doi, title, config, cleaned_doi, cfgLoaded, sessionBuilt, payload,
                 deduped_urls, ci, mi, dest_file, netLog>>

FetchNext ==
  \/ FetchCall
  \/ ResolverLookup
  \/ TryCandidate
  \/ MirrorLookup
  \/ MirrorDownload
  \/ FetchFailed

(***************************************************************************)
(* research.py: run_pipeline                                               *)
(***************************************************************************)
MaxPapers == 2       \* most records the search returns

\* DOI_PATTERN.fullmatch(s) of research.py: 10\.\d{4,}/\S+
ResearchDoiFullMatch(s) ==
  LET k == RunLen(s, 4, Digits, FALSE)
      n == RunLen(s, 5 + k, Whitespace, TRUE)
  IN /\ StartsWith(s, <<"1", "0", ".">>)
     /\ k >= MinRegistrant
     /\ 4 + k <= Len(s)
     /\ s[4 + k] = "/"
     /\ n >= 1
     /\ 4 + k + n = Len(s)

\* is_valid_doi of research.py, on the stripped doi of a record
research_is_valid_doi(d) == d # <<>> /\ ResearchDoiFullMatch(Strip(d))

\* the doi field of a record: None when _extract_doi found nothing, else a
\* match of 10\.\d{4,}/\S+ with its trailing punctuation cut
PaperDois ==
  { None,
    <<"1", "0", ".", "1", "2", "3", "4", "/", "a", "b">>,
    <<"1", "0", ".", "1", "2", "3", "4", "/">>,
    <<"1", "0", ".", "1", "2", "3", "4", "5", "6", "7", "8", "9", "0", "/", "x">> }

PaperTitles == { <<"T">> }

Papers == [title : PaperTitles, doi : PaperDois]

Collections == { None, <<"c">> }

\* what a fetch_pdf call ends with: a path and a tag, (None, None), or an
\* exception
FetchOutcomes ==
  [exc : {"none"}, path : {<<"p">>}, tag : {<<ResolverTag>>, <<MirrorTag>>}]
  \cup [exc : {"none"}, path : {None}, tag : {None}]
  \cup [exc : {"TypeError", "OSError"}, path : {None}, tag : {None}]

\* what an add_paper call ends with: an item key, None, or an exception
AddOutcomes ==
  [exc : {"none"}, key : {<<"k">>, None}]
  \cup [exc : {"FileNotFoundError", "RuntimeError"}, key : {None}]

\* a handler for the errors of the file system only
PipelineCaughtOSErrorOnly(exc) == exc \in {"FileNotFoundError", "OSError"}

\* except Exception
PipelineCaught(exc) ==
  exc \in {"AttributeError", "TypeError", "FileNotFoundError", "OSError", "RuntimeError"}

\* (paper.get("doi") or "").strip()
PaperDoi(paper) == IF paper.doi = None THEN <<>> ELSE Strip(paper.doi)

\* the annotation written whether or not there is a source
item_metadata_always(paper, coll, src) ==
  [paper |-> paper,
   collection_name |-> coll,
   extra |-> <<"PDF source: ", src>>]

\* lines 68-72
item_metadata(paper, coll, src) ==
  [paper |-> paper,
   collection_name |-> coll,
   extra |-> IF src = None THEN None ELSE <<"PDF source: ", src>>]

PipelineInit ==
  /\ p_pc = "call"
  /\ p_config \in BOOLEAN
  /\ collection \in Collections
  /\ papers \in SeqsUpTo(Papers, MaxPapers)
  /\ p_i = 0
  /\ pdf_path = None
  /\ source = None
  /\ pdf_success_count = 0
  /\ zotero_success_count = 0
  /\ fetchLog = <<>>
  /\ addLog = <<>>
  /\ summary = <<>>
  /\ p_ret = None

\* lines 44-53: the configuration is loaded, the search returns papers
PipelineCall ==
  /\ UNCHANGED notPipeline
  /\ p_pc = "call"
  /\ IF p_config
     THEN p_pc' = "paper" /\ p_i' = 1
     ELSE p_pc' = "raised" /\ p_i' = p_i
  /\ UNCHANGED <<p_config, collection, papers, pdf_path, source, pdf_success_count,
                 zotero_success_count, fetchLog, addLog, summary, p_ret>>

\* lines 54-58 and 65-66: the record has no valid DOI
PdfSkipped ==
  /\ UNCHANGED notPipeline
  /\ p_pc = "paper"
  /\ p_i <= Len(papers)
  /\ ~research_is_valid_doi(PaperDoi(papers[p_i]))
  /\ pdf_path' = None
  /\ source' = None
  /\ p_pc' = "add"
  /\ UNCHANGED <<p_config, collection, papers, p_i, pdf_success_count,
                 zotero_success_count, fetchLog, addLog, summary, p_ret>>

\* lines 54-64: fetch_pdf is called for the record
PdfFetched ==
  /\ UNCHANGED notPipeline
  /\ p_pc = "paper"
  /\ p_i <= Len(papers)
  /\ research_is_valid_doi(PaperDoi(papers[p_i]))
  /\ \E res \in FetchOutcomes :
       /\ fetchLog' = Append(fetchLog, [i |-> p_i, doi |-> PaperDoi(papers[p_i]), res |-> res])
       /\ IF res.exc = "none"
          THEN /\ pdf_path' = res.path
               /\ source' = res.tag
               /\ pdf_success_count' = pdf_success_count + (IF res.path # None THEN 1 ELSE 0)
               /\ p_pc' = "add"
          ELSE /\ pdf_path' = None
               /\ source' = None
               /\ pdf_success_count' = pdf_success_count
               /\ p_pc' = IF PipelineCaught(res.exc) THEN "add" ELSE "raised"
  /\ UNCHANGED <<p_config, collection, papers, p_i, zotero_success_count, addLog, summary,
                 p_ret>>

\* lines 68-79: add_paper is called for the record, the loop moves on
PaperAdded ==
  /\ UNCHANGED notPipeline
  /\ p_pc = "add"
  /\ \E res \in AddOutcomes :
       /\ addLog' = Append(addLog, [i |-> p_i,
                                    metadata |-> item_metadata(papers[p_i], collection, source),
                                    pdf_path |-> pdf_path,
                                    res |-> res])
       /\ zotero_success_count' =
            zotero_success_count + (IF res.exc = "none" /\ res.key # None THEN 1 ELSE 0)
       /\ IF res.exc = "none" \/ PipelineCaught(res.exc)
          THEN p_pc' = "paper" /\ p_i' = p_i + 1
          ELSE p_pc' = "raised" /\ p_i' = p_i
  /\ UNCHANGED <<p_config, collection, papers, pdf_path, source, pdf_success_count, fetchLog,
                 summary, p_ret>>

\* lines 81-88
PipelineReturn ==
  /\ UNCHANGED notPipeline
  /\ p_pc = "paper"
  /\ p_i > Len(papers)
  /\ summary' = <<Len(papers), pdf_success_count, zotero_success_count>>
  /\ p_ret' = 0
  /\ p_pc' = "done"
  /\ UNCHANGED <<p_config, collection, papers, p_i, pdf_path, source, pdf_success_count,
                 zotero_success_count, fetchLog, addLog>>

PipelineNext ==
  \/ PipelineCall
  \/ PdfSkipped
  \/ PdfFetched
  \/ PaperAdded
  \/ PipelineReturn

(***************************************************************************)
(* run_pipeline with fetch_pdf itself in place of its outcomes: the call   *)
(* of line 60 starts the waterfall above on the record's DOI and title,    *)
(* and its return or its exception comes back to lines 60-64               *)
(***************************************************************************)
\* largest number of records searched for when fetch_pdf itself runs
MaxFetchedPapers == 1

\* line 60: fetch_pdf(doi, paper.get("title", "paper"), config_path=config_path);
\* the configuration file is the one run_pipeline has loaded at line 44, the
\* same for every record
CallFetchPdf ==
  /\ p_pc = "paper"
  /\ p_i <= Len(papers)
  /\ research_is_valid_doi(PaperDoi(papers[p_i]))
  /\ p_pc' = "fetching"
  /\ f_pc' = "call"
  /\ doi' = PaperDoi(papers[p_i])
  /\ title' = papers[p_i].title
  /\ config' \in IF config = NoConfig THEN {c \in Configs : c.exists} ELSE {config}
  /\ cleaned_doi' = None
  /\ cfgLoaded' = FALSE
  /\ sessionBuilt' = FALSE
  /\ payload' = <<>>
  /\ deduped_urls' = <<>>
  /\ ci' = 0
  /\ mi' = 0
  /\ dest_file' = NoFile
  /\ netLog' = <<>>
  /\ outcome' = None
  /\ UNCHANGED <<p_config, collection, papers, p_i, pdf_path, source, pdf_success_count,
                 zotero_success_count, fetchLog, addLog, summary, p_ret>>
  /\ UNCHANGED <<svars, dvars, nvars, rvars, sfvars>>

\* lines 60-64: pdf_path, source = fetch_pdf(...), or the exception is caught;
\* every exception the waterfall raises is an Exception.  The call's frame is
\* gone after it.
FetchPdfReturned ==
  /\ p_pc = "fetching"
  /\ f_pc \in {"done", "raised"}
  /\ LET got == f_pc = "done" /\ outcome # Fail
         res == [exc |-> IF f_pc = "raised" THEN "Exception" ELSE "none",
                 path |-> IF got THEN outcome[1] ELSE None,
                 tag |-> IF got THEN <<outcome[2]>> ELSE None]
     IN /\ fetchLog' = Append(fetchLog, [i |-> p_i, doi |-> doi, res |-> res])
        /\ pdf_path' = res.path
        /\ source' = res.tag
        /\ pdf_success_count' = pdf_success_count + (IF res.path # None THEN 1 ELSE 0)
  /\ p_pc' = "add"
  /\ UNCHANGED <<p_config, collection, papers, p_i, zotero_success_count, addLog, summary,
                 p_ret>>
  /\ f_pc' = "idle"
  /\ doi' = <<>>
  /\ title' = <<>>
  /\ config' = config
  /\ cleaned_doi' = None
  /\ cfgLoaded' = FALSE
  /\ sessionBuilt' = FALSE
  /\ payload' = <<>>
  /\ deduped_urls' = <<>>
  /\ ci' = 0
  /\ mi' = 0
  /\ dest_file' = NoFile
  /\ netLog' = <<>>
  /\ outcome' = None
  /\ UNCHANGED <<svars, dvars, nvars, rvars, sfvars>>

PipelineFetchNext ==
  \/ PipelineCall
  \/ PdfSkipped
  \/ CallFetchPdf
  \/ FetchNext
  \/ FetchPdfReturned
  \/ PaperAdded
  \/ PipelineReturn

(***************************************************************************)
(* doi_utils.py: the four functions called on their own                    *)
(***************************************************************************)
MaxSegment == 9      \* longest all-digit path segment tried, the examples apart

DigitSeq == <<"1", "2", "3", "4", "5", "6", "7", "8", "9", "0">>

\* k digits
DigitRun(k) == [i \in 1..k |-> DigitSeq[((i - 1) % 10) + 1]]

\* what stands in front of the DOI: nothing, a resolver prefix, two of
\* them, or text
Wrappers ==
  { <<>>,
    prefixes[1],
    <<"H","T","T","P",":","/","/","D","X",".","D","O","I",".","O","R","G","/">>,
    prefixes[5],
    prefixes[5] \o prefixes[1],
    <<"s", "e", "e", " ">> }

\* registrants one digit either side of the limits, and at the limits
Registrants ==
  {DigitRun(k) : k \in {MinRegistrant - 1, MinRegistrant, MaxRegistrant, MaxRegistrant + 1}}

NumericSegments == {DigitRun(m) : m \in 4..MaxSegment}

Suffixes ==
  { <<>>, <<"a", "b">>, <<"a", " ", "b">>, <<"a", "b", ".">>, <<"x", "/", "y">>,
    <<"a", "b", ".", "/">> \o DigitRun(6),
    <<"a", "/">> \o DigitRun(6) \o <<"/">> \o DigitRun(7) }
  \cup NumericSegments
  \cup {<<"a", "/">> \o seg : seg \in NumericSegments}

Queries ==
  { <<>>, <<"?", "x">>, <<"&", "t", "y", "p", "e", "=", "p", "d", "f">>,
    <<"&", "a", "m", "p", ";", "x">> }

Pads == { <<>>, <<" ">> }

Doi(reg, suf) == <<"1", "0", ".">> \o reg \o <<"/">> \o suf

\* lines 161-173: <<input, expected output>>
test_cases ==
  <<
    <<<<"1", "0", ".", "1", "2", "3", "4", "/", "e", "x", "a", "m", "p", "l", "e">>,
      <<"1", "0", ".", "1", "2", "3", "4", "/", "e", "x", "a", "m", "p", "l", "e">>>>,
    <<<<"h", "t", "t", "p", "s", ":", "/", "/", "d", "o", "i", ".", "o", "r", "g", "/",
        "1", "0", ".", "1", "2", "3", "4", "/", "e", "x", "a", "m", "p", "l", "e">>,
      <<"1", "0", ".", "1", "2", "3", "4", "/", "e", "x", "a", "m", "p", "l", "e">>>>,
    <<<<"1", "0", ".", "1", "2", "3", "4", "/", "e", "x", "a", "m", "p", "l", "e", "&",
        "t", "y", "p", "e", "=", "p", "d", "f">>,
      <<"1", "0", ".", "1", "2", "3", "4", "/", "e", "x", "a", "m", "p", "l", "e">>>>,
    <<<<"1", "0", ".", "1", "1", "0", "8", "/", "R", "E", "P", "S", "-", "1", "2", "-",
        "2", "0", "2", "4", "-", "0", "1", "0", "4", "/", "1", "3", "0", "7", "3", "7",
        "1">>,
      <<"1", "0", ".", "1", "1", "0", "8", "/", "R", "E", "P", "S", "-", "1", "2", "-",
        "2", "0", "2", "4", "-", "0", "1", "0", "4">>>>,
    <<<<"1", "0", ".", "1", "1", "7", "7", "/", "2", "0", "4", "1", "9", "0", "5", "8",
        "2", "0", "9", "1", "1", "7", "4", "6">>,
      <<"1", "0", ".", "1", "1", "7", "7", "/", "2", "0", "4", "1", "9", "0", "5", "8",
        "2", "0", "9", "1", "1", "7", "4", "6">>>>,
    <<<<"1", "0", ".", "1", "2", "0", "1", "/", "9", "7", "8", "1", "0", "0", "3", "5",
        "9", "4", "1", "8", "5", "-", "8", "&", "t", "y", "p", "e", "=", "c", "h", "a",
        "p", "t", "e", "r", "p", "d", "f">>,
      <<"1", "0", ".", "1", "2", "0", "1", "/", "9", "7", "8", "1", "0", "0", "3", "5",
        "9", "4", "1", "8", "5", "-", "8">>>>,
    <<<<"1", "0", ".", "4", "3", "2", "4", "/", "9", "7", "8", "1", "0", "3", "2", "6",
        "4", "6", "9", "3", "0", "-", "1", "3", "/", "w", "o", "r", "l", "d", "2", "v",
        "e", "c", "-", "v", "e", "c", "2", "p", "o", "l", "i", "t", "i", "c", "s">>,
      <<"1", "0", ".", "4", "3", "2", "4", "/", "9", "7", "8", "1", "0", "3", "2", "6",
        "4", "6", "9", "3", "0", "-", "1", "3", "/", "w", "o", "r", "l", "d", "2", "v",
        "e", "c", "-", "v", "e", "c", "2", "p", "o", "l", "i", "t", "i", "c", "s">>>>,
    <<<<"n", "o", "t", "-", "a", "-", "d", "o", "i">>,
      None>>,
    <<<<>>,
      None>>,
    <<<<"1", "0", ".", "1", "0", "8", "0", "/", "2", "3", "7", "3", "8", "8", "7", "1",
        ".", "2", "0", "2", "0", ".", "1", "7", "9", "7", "1", "3", "6">>,
      <<"1", "0", ".", "1", "0", "8", "0", "/", "2", "3", "7", "3", "8", "8", "7", "1",
        ".", "2", "0", "2", "0", ".", "1", "7", "9", "7", "1", "3", "6">>>>
  >>

\* the texts that get wrapped: DOIs and near-DOIs, the inputs of test_cases,
\* and texts with no DOI in them
Cores ==
  {Doi(reg, suf) : reg \in Registrants, suf \in Suffixes}
  \cup {test_cases[i][1] : i \in 1..Len(test_cases)}
  \cup { prefixes[5], <<"1", "0", ".">>, <<"/">> \o DigitRun(6) }

\* an argument is put together from padding, a wrapper, a core and a query
DoiParts == [pad : Pads, w : Wrappers, core : Cores, q : Queries]

Compose(parts) == parts.pad \o parts.w \o parts.core \o parts.q \o parts.pad

DoiInit ==
  /\ n_pc = "input"
  /\ n_parts \in DoiParts
  /\ n_text = Compose(n_parts)
  /\ n_out = None
  /\ n_valid = FALSE
  /\ n_again = None

CleanDoi ==
  /\ UNCHANGED notDoi
  /\ n_pc = "input"
  /\ n_pc' = "clean_doi"
  /\ n_out' = clean_doi(n_text)
  /\ UNCHANGED <<n_parts, n_text, n_valid, n_again>>

ExtractDoi ==
  /\ UNCHANGED notDoi
  /\ n_pc = "input"
  /\ n_pc' = "extract_doi"
  /\ n_out' = extract_doi(n_text)
  /\ UNCHANGED <<n_parts, n_text, n_valid, n_again>>

IsValidDoi ==
  /\ UNCHANGED notDoi
  /\ n_pc = "input"
  /\ n_pc' = "is_valid_doi"
  /\ n_valid' = is_valid_doi(n_text)
  /\ UNCHANGED <<n_parts, n_text, n_out, n_again>>

NormalizeDoi ==
  /\ UNCHANGED notDoi
  /\ n_pc = "input"
  /\ n_pc' = "normalize_doi"
  /\ n_out' = normalize_doi(n_text)
  /\ UNCHANGED <<n_parts, n_text, n_valid, n_again>>

\* clean_doi(clean_doi(x)): the function is called on what it returned
CleanDoiAgain ==
  /\ UNCHANGED notDoi
  /\ n_pc = "clean_doi"
  /\ n_out # None
  /\ n_pc' = "clean_doi again"
  /\ n_again' = clean_doi(n_out)
  /\ UNCHANGED <<n_parts, n_text, n_out, n_valid>>

\* normalize_doi(normalize_doi(x))
NormalizeDoiAgain ==
  /\ UNCHANGED notDoi
  /\ n_pc = "normalize_doi"
  /\ n_out # None
  /\ n_pc' = "normalize_doi again"
  /\ n_again' = normalize_doi(n_out)
  /\ UNCHANGED <<n_parts, n_text, n_out, n_valid>>

DoiNext ==
  \/ CleanDoi
  \/ ExtractDoi
  \/ IsValidDoi
  \/ NormalizeDoi
  \/ CleanDoiAgain
  \/ NormalizeDoiAgain

(***************************************************************************)
(* pdf_fetcher.py, scholar_search.py: _build_session.  One request sent    *)
(* through the adapter mounted with Retry(total=3, connect=3, read=3,      *)
(* status=3, status_forcelist, allowed_methods); the counters and the      *)
(* decisions are those of the Retry object the adapter hands to urlopen.   *)
(***************************************************************************)
RetryTotal == 3

RetryConnect == 3

RetryRead == 3

RetryStatus == 3

status_forcelist == {429, 500, 502, 503, 504}

allowed_methods == {"GET", "HEAD"}

\* Retry.RETRY_AFTER_STATUS_CODES; respect_retry_after_header is left at its
\* default, True
RETRY_AFTER_STATUS_CODES == {413, 429, 503}

Methods == {"GET", "HEAD", "POST"}

SessionStatuses == {200, 404, 413, 429, 500, 503}

\* what one attempt comes back with: an error before the request was sent,
\* an error while the response was read, or a response with a status, with
\* or without a Retry-After header
Attempts ==
  [kind : {"connect_error", "read_error"}, status : {0}, retry_after : {FALSE}]
  \cup [kind : {"response"}, status : SessionStatuses, retry_after : BOOLEAN]

\* Retry._is_method_retryable
_is_method_retryable(m) == m \in allowed_methods

\* Retry.is_retry(method, status_code, has_retry_after)
is_retry(m, status, has_retry_after, total) ==
  IF ~_is_method_retryable(m) THEN FALSE
  ELSE IF status \in status_forcelist THEN TRUE
  ELSE total # 0 /\ has_retry_after /\ status \in RETRY_AFTER_STATUS_CODES

\* Retry.is_exhausted
is_exhausted(total, connect, read, status) ==
  total < 0 \/ connect < 0 \/ read < 0 \/ status < 0

SessionInit ==
  /\ r_pc = "send"
  /\ r_method \in Methods
  /\ r_total = RetryTotal
  /\ r_connect = RetryConnect
  /\ r_read = RetryRead
  /\ r_status = RetryStatus
  /\ r_history = <<>>
  /\ r_result = "none"

\* the connection could not be made: Retry.increment counts it against
\* total and connect, whatever the method
ConnectFailed ==
  /\ UNCHANGED notSession
  /\ r_pc = "send"
  /\ r_history' = Append(r_history, [kind |-> "connect_error", status |-> 0, retry_after |-> FALSE])
  /\ r_total' = r_total - 1
  /\ r_connect' = r_connect - 1
  /\ IF is_exhausted(r_total', r_connect', r_read, r_status)
     THEN r_pc' = "done" /\ r_result' = "ConnectionError"
     ELSE r_pc' = r_pc /\ r_result' = r_result
  /\ UNCHANGED <<r_method, r_read, r_status>>

\* the response could not be read: re-raised for a method that is not
\* allowed, else counted against total and read
ReadFailed ==
  /\ UNCHANGED notSession
  /\ r_pc = "send"
  /\ r_history' = Append(r_history, [kind |-> "read_error", status |-> 0, retry_after |-> FALSE])
  /\ IF ~_is_method_retryable(r_method)
     THEN /\ r_pc' = "done"
          /\ r_result' = "ReadTimeout"
          /\ UNCHANGED <<r_total, r_read>>
     ELSE /\ r_total' = r_total - 1
          /\ r_read' = r_read - 1
          /\ IF is_exhausted(r_total', r_connect, r_read', r_status)
             THEN r_pc' = "done" /\ r_result' = "ConnectionError"
             ELSE r_pc' = r_pc /\ r_result' = r_result
  /\ UNCHANGED <<r_method, r_connect, r_status>>

\* a response came back: handed to the caller, or counted against total and
\* status and the request sent again
Responded ==
  /\ UNCHANGED notSession
  /\ r_pc = "send"
  /\ \E a \in Attempts :
       /\ a.kind = "response"
       /\ r_history' = Append(r_history, a)
       /\ IF ~is_retry(r_method, a.status, a.retry_after, r_total)
          THEN /\ r_pc' = "done"
               /\ r_result' = "response"
               /\ UNCHANGED <<r_total, r_status>>
          ELSE /\ r_total' = r_total - 1
               /\ r_status' = r_status - 1
               /\ IF is_exhausted(r_total', r_connect, r_read, r_status')
                  THEN r_pc' = "done" /\ r_result' = "RetryError"
                  ELSE r_pc' = r_pc /\ r_result' = r_result
  /\ UNCHANGED <<r_method, r_connect, r_read>>

SessionNext ==
  \/ ConnectFailed
  \/ ReadFailed
  \/ Responded

(***************************************************************************)
(* _safe_filename called alone (pdf_fetcher.py), on titles and identifiers *)
(* around the two cuts                                                     *)
(***************************************************************************)
\* how far past a cut the longest title and the longest identifier reach
MaxOver == 1

\* the text of length k that repeats p
Pattern(p, k) == [i \in 1..k |-> p[((i - 1) % Len(p)) + 1]]

\* the titles _safe_filename is called with: empty, blank, punctuation only,
\* short, and just under, at and over the cut at TitleCap
FilenameTitles ==
  { Pattern(p, k) :
      p \in { <<"a">>, <<" ">>, <<"?">>, <<"a", " ">>, <<"a", "?", "?">>, <<"é", "b">> },
      k \in {0, 1, 3} \cup ((TitleCap - 1)..(TitleCap + MaxOver)) }

\* the identifiers _safe_filename is called with
FilenameDois ==
  { Pattern(p, k) :
      p \in { <<"1", "0", ".", "1", "2", "3", "4", "/", "a", "(">>, <<"x">> },
      k \in {0, 10} \cup ((DoiCap - 1)..(DoiCap + MaxOver)) }

FilenameInit ==
  /\ sf_pc = "input"
  /\ sf_title \in FilenameTitles
  /\ sf_doi \in FilenameDois
  /\ sf_name = None

\* filename = _safe_filename(title, doi)
SafeFilename ==
  /\ sf_pc = "input"
  /\ sf_pc' = "done"
  /\ sf_name' = _safe_filename(sf_title, sf_doi)
  /\ UNCHANGED <<sf_title, sf_doi>>
  /\ UNCHANGED notFilename

FilenameNext == SafeFilename

(***************************************************************************)
(* Claims about search_scholar (SpecSearch)                                *)
(***************************************************************************)
ServedEntries == Flatten([i \in 1..Len(served) |-> served[i].entries])

\* C1: whatever the server answers, search_scholar returns at most
\* max_results entries, and for max_results <= 0 it returns the empty list
\* without having issued a request.
C1_ReturnBounded ==
  pc = "done" =>
    /\ max_results > 0 => Len(returned) <= max_results
    /\ max_results <= 0 => returned = <<>> /\ reqLog = <<>>

\* the last page overshot the requested count and the result was cut
C1_Witness ==
  pc = "done" /\ max_results > 0 /\ Len(results) > max_results /\ Len(returned) = max_results

\* C2: the parsed pages have the offsets 0, 10, 20, ... in this order, and
\* the returned list is the first min(max_results, total) entries of their
\* concatenation in fetch order, each page in its own ranking.
C2_PagesInOrder ==
  /\ \A i \in 1..Len(served) :
       /\ served[i].offset = 10 * (i - 1)
       /\ \A j \in 1..Len(served[i].entries) : served[i].entries[j] = <<served[i].offset, j>>
  /\ pc = "done" =>
       returned = Take(ServedEntries, Min(max_results, Len(ServedEntries)))

\* two pages were parsed and the second one was cut by the truncation
C2_Witness ==
  /\ pc = "done"
  /\ Len(served) >= 2
  /\ Len(returned) < Len(ServedEntries)
  /\ returned[Len(returned)][1] = 10

\* C3: once 4 consecutive attempts at one offset have failed the loop issues
\* no further request and returns what the earlier pages gave, cut to
\* max_results; fewer failures do not end it; no failure raises.
C3_AbandonAfterMaxAttempts ==
  /\ [](pc # "raised")
  /\ [][/\ (pc = "loop" /\ attempts = 4) =>
             /\ pc' = "done"
             /\ reqLog' = reqLog
             /\ returned' = Take(ServedEntries, max_results)
        /\ (pc = "loop" /\ pc' = "done") =>
             (attempts = 4 \/ Len(results) >= max_results)]_vars

\* pagination was abandoned after a successful page
C3_Witness ==
  /\ pc = "done"
  /\ attempts = 4
  /\ Len(returned) > 0
  /\ lastResp.exc = "Timeout"

\* C4 as claimed: a request answered with 429, like a body holding a
\* rate-limit phrase, is followed by a sleep of min(cap, 2^attempt + jitter)
\* with jitter > 0, one more attempt and a retry of the same offset.
C4_RateLimitBackoff ==
  (lastResp.exc = "none" /\ (lastResp.status = 429 \/ (lastResp.status = 200 /\ lastResp.marker))) =>
    /\ attempts >= 1
    /\ reqLog[Len(reqLog)] = start
    /\ \E jitter \in JitterMin..JitterMax :
         lastSleep.tenths = Min(300, 10 * Pow2(attempts - 1) + jitter)

\* the request of this step failed: session.get raised, or the status is an
\* error status
FailedStep == reqLog' # reqLog /\ (lastResp'.exc # "none" \/ lastResp'.status >= 400)

\* the request of this step was answered with a page that holds a
\* rate-limit phrase
RateLimitStep ==
  reqLog' # reqLog /\ lastResp'.exc = "none" /\ lastResp'.status = 200 /\ lastResp'.marker

\* C17: a failed request and a detected rate limit leave the offset and the
\* accumulated list as they were and add exactly 1 to the attempt counter,
\* and every request asks for the current offset, so the same offset is asked
\* for next; after a failed request the sleep is exactly 2^attempt seconds
\* for the counter's value before the step: 1, 2, 4 or 8.
C17_RetryFrame ==
  [][ /\ (FailedStep \/ RateLimitStep) =>
           /\ start' = start
           /\ results' = results
           /\ attempts' = attempts + 1
      /\ FailedStep =>
           /\ lastSleep'.tenths = 10 * (2 ^ attempts)
           /\ lastSleep'.tenths \in {10, 20, 40, 80}
      /\ reqLog' # reqLog => reqLog' = Append(reqLog, start) ]_vars

\* after a parsed page the second page failed three times running; the last
\* wait was 4 seconds and the offset is still 10
C17_Witness ==
  /\ pc = "loop"
  /\ Len(served) = 1
  /\ start = 10
  /\ attempts = 3
  /\ lastResp.exc = "ConnectionError"
  /\ lastSleep = [kind |-> "retry", tenths |-> 40]
  /\ SubSeq(reqLog, Len(reqLog) - 2, Len(reqLog)) = <<10, 10, 10>>

\* the request of this step was answered with a page, no rate limit in it,
\* that parsed to one entry or more
PageStepDone ==
  /\ reqLog' # reqLog
  /\ lastResp'.exc = "none"
  /\ lastResp'.status = 200
  /\ ~lastResp'.marker
  /\ lastResp'.n >= 1

\* C18: a page with entries is appended whole, moves the offset on by 10 and
\* sets the attempt counter to 0; so the offset is 10 times the number of
\* such pages so far, and the counter is the number of requests made at the
\* current offset, all of them failures since the last page with entries.
C18_PageAdvances ==
  /\ [](start = 10 * Len(served))
  /\ [](pc = "loop" => attempts = Cardinality({i \in 1..Len(reqLog) : reqLog[i] = start}))
  /\ [][PageStepDone =>
          /\ Len(results') = Len(results) + lastResp'.n
          /\ SubSeq(results', 1, Len(results)) = results
          /\ \A j \in 1..lastResp'.n : results'[Len(results) + j] = <<start, j>>
          /\ start' = start + 10
          /\ attempts' = 0]_vars

\* three failures, then a page with two entries: the counter is back at 0
\* and three more failures do not end the search
C18_Witness ==
  /\ pc = "loop"
  /\ reqLog = <<0, 0, 0, 0, 10, 10, 10>>
  /\ Len(results) = 2
  /\ start = 10
  /\ attempts = 3

\* the request of this step was answered with a page, no rate limit in it,
\* that parsed to no entry
EmptyStep ==
  /\ reqLog' # reqLog
  /\ lastResp'.exc = "none"
  /\ lastResp'.status = 200
  /\ ~lastResp'.marker
  /\ lastResp'.n = 0

\* C19: a page that parses to no entry ends the pagination: the step itself
\* sleeps nothing and counts no attempt, the step after it returns what the
\* earlier pages gave, cut to max_results, and no request follows.
C19_EmptyPageEnds ==
  /\ [][EmptyStep =>
          /\ pc' = "break"
          /\ lastSleep' = lastSleep
          /\ attempts' = attempts
          /\ results' = results]_vars
  /\ [][pc = "break" =>
          /\ pc' = "done"
          /\ reqLog' = reqLog
          /\ lastSleep' = lastSleep
          /\ returned' = Take(ServedEntries, max_results)]_vars
  /\ []((lastResp.exc = "none" /\ lastResp.status = 200 /\ ~lastResp.marker /\ lastResp.n = 0)
          => pc \in {"break", "done"})
  /\ [][pc = "done" => reqLog' = reqLog]_vars

\* the second page was empty: the search returned the first page's entries
\* with max_results not reached
C19_Witness ==
  /\ pc = "done"
  /\ reqLog = <<0, 10>>
  /\ lastResp.exc = "none"
  /\ lastResp.n = 0
  /\ ~lastResp.marker
  /\ Len(returned) = 2
  /\ max_results = 3
  /\ attempts = 0

\* a step that sent a request, that is, one iteration of the while loop
Iteration == reqLog' # reqLog

\* C22: search_scholar terminates: every iteration of the loop either adds 1
\* to the attempt counter, which never passes 4, or adds at least one entry
\* to a list that was still shorter than max_results, or leaves the loop;
\* and every call eventually returns.
C22_Terminates ==
  /\ [][ Iteration =>
           \/ /\ attempts' = attempts + 1
              /\ attempts' <= max_attempts
              /\ results' = results
           \/ /\ Len(results') > Len(results)
              /\ Len(results) < max_results
           \/ pc' = "break" ]_vars
  /\ <>(pc = "done")

\* the call returned after a parsed page and then four failed requests in a
\* row
C22_Witness ==
  /\ pc = "done"
  /\ Len(reqLog) = 1 + max_attempts
  /\ results # <<>>
  /\ attempts = max_attempts

(***************************************************************************)
(* Claims about fetch_pdf and its stages (SpecFetch)                       *)
(***************************************************************************)
Called == f_pc \notin {"idle", "call"}

\* the entries of the log with a request kind in kinds, in order
RECURSIVE Only(_, _)
Only(log, kinds) ==
  IF log = <<>> THEN <<>>
  ELSE IF Head(log).req \in kinds THEN <<Head(log)>> \o Only(Tail(log), kinds)
  ELSE Only(Tail(log), kinds)

AtOnceFailure ==
  /\ f_pc = "done"
  /\ outcome = Fail
  /\ ~cfgLoaded
  /\ ~sessionBuilt
  /\ netLog = <<>>

\* C5 as claimed: an identifier for which is_valid_doi is false makes
\* fetch_pdf return (None, None) at once: no configuration read, no session,
\* no request.
C5_InvalidFailsAtOnce ==
  (Called /\ ~is_valid_doi(doi)) => AtOnceFailure

\* C5 amended: an identifier that normalize_doi maps to no valid DOI makes
\* fetch_pdf return (None, None) at once: no configuration read, no session,
\* no request.
C5_UnnormalizableFailsAtOnce ==
  (Called /\ normalize_doi(doi) = None) => AtOnceFailure

\* fetch_pdf has returned for a malformed identifier although a
\* configuration with resolver and mirrors was there to use
C5_Witness ==
  /\ f_pc = "done"
  /\ normalize_doi(doi) = None
  /\ doi # <<>>
  /\ config.exists
  /\ config.unpaywall_email # <<>>
  /\ Len(config.scihub_mirrors) > 0

\* C6: a mirror is requested only when the resolver stage was skipped or
\* ended without a saved PDF; a PDF saved by the resolver stage ends the call
\* with the resolver tag and no mirror request, and the mirror tag is
\* returned only when no candidate was saved.
C6_ResolverPreferred ==
  LET cands == Only(netLog, {"candidate"})
      mirs == Only(netLog, {"mirror", "link"})
      savedByResolver == \E i \in 1..Len(cands) : cands[i].res = "saved"
  IN /\ savedByResolver =>
          /\ mirs = <<>>
          /\ f_pc = "done"
          /\ outcome[2] = "unpaywall"
     /\ (f_pc = "done" /\ outcome # Fail /\ outcome[2] = "unpaywall") => savedByResolver
     /\ (f_pc = "done" /\ outcome # Fail /\ outcome[2] = "sci-hub") =>
          /\ ~savedByResolver
          /\ mirs # <<>>
     /\ mirs # <<>> =>
          \/ config.unpaywall_email = <<>> /\ Only(netLog, {"resolver", "candidate"}) = <<>>
          \/ /\ netLog[1].req = "resolver"
             /\ Len(cands) = (IF netLog[1].res = "json" THEN Len(deduped_urls) ELSE 0)

\* the resolver stage saved a PDF from its second candidate while mirrors
\* were configured
C6_Witness ==
  /\ f_pc = "done"
  /\ outcome[2] = "unpaywall"
  /\ Len(netLog) = 3
  /\ Len(config.scihub_mirrors) > 0

\* C7: with no resolver email configured fetch_pdf asks the resolver
\* nothing, raises nothing, and tries the mirrors: it ends with the mirror
\* tag, or with (None, None) after every configured mirror was requested.
C7_NoEmailSkipsResolver ==
  (Called /\ config.exists /\ config.unpaywall_email = <<>> /\ normalize_doi(doi) # None) =>
    /\ f_pc # "raised"
    /\ Only(netLog, {"resolver", "candidate"}) = <<>>
    /\ f_pc = "done" =>
         \/ outcome # Fail /\ outcome[2] = "sci-hub" /\ netLog[Len(netLog)].res = "saved"
         \/ /\ outcome = Fail
            /\ [i \in 1..Len(Only(netLog, {"mirror"})) |-> Only(netLog, {"mirror"})[i].to]
                 = config.scihub_mirrors

\* no email, two or more mirrors, all of them tried in vain
C7_Witness ==
  /\ f_pc = "done"
  /\ config.exists
  /\ config.unpaywall_email = <<>>
  /\ Len(config.scihub_mirrors) >= 2
  /\ outcome = Fail
  /\ Len(netLog) > Len(config.scihub_mirrors)

\* C8: the mirrors are requested in configured order, each after the one
\* before it failed (error, no link, or rejected link download); the first
\* mirror that saves a PDF ends the stage and no later mirror is requested.
C8_MirrorsInOrder ==
  LET lookups == Only(netLog, {"mirror"})
      mirs == Only(netLog, {"mirror", "link"})
  IN /\ Len(lookups) <= Len(config.scihub_mirrors)
     /\ \A i \in 1..Len(lookups) : lookups[i].to = config.scihub_mirrors[i]
     /\ \A i \in 1..Len(mirs) :
          /\ mirs[i].res = "saved" => (i = Len(mirs) /\ f_pc = "done" /\ outcome[2] = "sci-hub")
          /\ mirs[i].req = "link" =>
               (i > 1 /\ mirs[i - 1].req = "mirror" /\ mirs[i - 1].res = "link"
                /\ mirs[i - 1].to = mirs[i].to)
          /\ (mirs[i].req = "mirror" /\ i > 1) => mirs[i - 1].res = "failed"
     /\ (f_pc = "done" /\ outcome = Fail /\ cfgLoaded) =>
          Len(lookups) = Len(config.scihub_mirrors)

\* four mirrors configured, the first fails, the second's link is rejected,
\* the third saves the PDF, the fourth is never requested
C8_Witness ==
  LET lookups == Only(netLog, {"mirror"})
  IN /\ f_pc = "done"
     /\ Len(config.scihub_mirrors) = 4
     /\ Len(lookups) = 3
     /\ outcome[2] = "sci-hub"
     /\ Len(Only(netLog, {"link"})) = 1
     /\ Only(netLog, {"link"})[1].to = 2

\* the URL fields of a resolver answer in reading order: best_oa_location's
\* url_for_pdf and url, then those of each oa_locations entry
Slots(p) ==
  <<p.best_oa_location.url_for_pdf, p.best_oa_location.url>>
  \o Flatten([i \in 1..Len(p.oa_locations) |->
               <<p.oa_locations[i].url_for_pdf, p.oa_locations[i].url>>])

FirstSlot(p, u) == CHOOSE k \in 1..Len(Slots(p)) :
                     Slots(p)[k] = u /\ \A j \in 1..(k - 1) : Slots(p)[j] # u

\* C9: the candidate list has no duplicates, holds every non-empty
\* url_for_pdf and url of best_oa_location and of the oa_locations entries,
\* best_oa_location's first, in first-seen order; the candidates are tried in
\* this order and none is tried after one was saved.
C9_CandidateList ==
  LET cands == Only(netLog, {"candidate"})
  IN /\ payload # <<>> =>
          /\ \A i, j \in 1..Len(deduped_urls) : deduped_urls[i] = deduped_urls[j] => i = j
          /\ Range(deduped_urls) = Range(Slots(payload[1])) \ {""}
          /\ \A i, j \in 1..Len(deduped_urls) :
               i < j => FirstSlot(payload[1], deduped_urls[i]) < FirstSlot(payload[1], deduped_urls[j])
          /\ \A i, j \in 1..Len(deduped_urls) :
               (FirstSlot(payload[1], deduped_urls[i]) <= 2 /\ FirstSlot(payload[1], deduped_urls[j]) > 2)
                 => i < j
     /\ Len(cands) <= Len(deduped_urls)
     /\ \A i \in 1..Len(cands) :
          /\ cands[i].to = deduped_urls[i]
          /\ cands[i].res = "saved" => i = Len(cands)
     /\ f_pc = "candidates" => ci = Len(cands) + 1

\* an answer that names one URL twice and another one between
C9_Witness ==
  /\ payload # <<>>
  /\ payload[1].best_oa_location = [url_for_pdf |-> "u2", url |-> ""]
  /\ payload[1].oa_locations = <<[url_for_pdf |-> "u1", url |-> "u2"]>>
  /\ deduped_urls = <<"u2", "u1">>

\* C11 as claimed: called with a valid identifier while the configuration
\* file exists, fetch_pdf propagates no exception whatever the resolver, the
\* candidates and the mirrors answer; it ends with a tagged path or with
\* (None, None).
C11_NeverPropagates ==
  (Called /\ config.exists /\ is_valid_doi(doi)) =>
    /\ f_pc # "raised"
    /\ f_pc = "done" => (outcome = Fail \/ outcome[2] \in {"unpaywall", "sci-hub"})

(***************************************************************************)
(* Claims about run_pipeline (SpecPipeline)                                *)
(***************************************************************************)
\* the calls of a log that gave a PDF, or an item
RECURSIVE CountFetched(_)
CountFetched(log) ==
  IF log = <<>> THEN 0
  ELSE (IF Head(log).res.exc = "none" /\ Head(log).res.path # None THEN 1 ELSE 0)
       + CountFetched(Tail(log))

RECURSIVE CountAdded(_)
CountAdded(log) ==
  IF log = <<>> THEN 0
  ELSE (IF Head(log).res.exc = "none" /\ Head(log).res.key # None THEN 1 ELSE 0)
       + CountAdded(Tail(log))

\* the records the loop is through with
Processed == IF p_pc \in {"paper", "done"} THEN p_i - 1 ELSE p_i

\* C12: once the search has returned, run_pipeline raises nothing; the
\* records are handed to add_paper one by one in the order of the search,
\* each exactly once, whatever fetch_pdf and add_paper returned or raised for
\* the records before; fetch_pdf is called for the records with a well-formed
\* DOI and for no other; the run ends with the counts of the records, of the
\* PDFs fetched and of the items added, and returns 0.
C12_EveryRecordHandedOver ==
  (p_pc \notin {"idle", "call"} /\ p_config) =>
    /\ p_pc # "raised"
    /\ Len(addLog) = (IF p_pc = "add" THEN p_i - 1 ELSE Processed)
    /\ \A j \in 1..Len(addLog) :
         /\ addLog[j].i = j
         /\ addLog[j].metadata.paper = papers[j]
    /\ \A j \in 1..Len(fetchLog) :
         /\ fetchLog[j].i \in 1..Len(papers)
         /\ ResearchDoiFullMatch(fetchLog[j].doi)
         /\ j > 1 => fetchLog[j - 1].i < fetchLog[j].i
    /\ \A k \in 1..Len(papers) :
         (k <= Processed /\ papers[k].doi # None /\ ResearchDoiFullMatch(Strip(papers[k].doi)))
           => \E j \in 1..Len(fetchLog) : fetchLog[j].i = k
    /\ \A k \in 1..Len(papers) :
         (papers[k].doi = None \/ ~ResearchDoiFullMatch(Strip(papers[k].doi)))
           => \A j \in 1..Len(fetchLog) : fetchLog[j].i # k
    /\ p_pc = "done" =>
         /\ Len(addLog) = Len(papers)
         /\ p_ret = 0
         /\ summary = <<Len(papers), CountFetched(fetchLog), CountAdded(addLog)>>

\* two records: fetch_pdf raised for the first and add_paper raised for it
\* too, the second has a malformed DOI; both were handed over and the run
\* returned 0
C12_Witness ==
  /\ p_pc = "done"
  /\ p_ret = 0
  /\ Len(papers) = 2
  /\ Len(fetchLog) = 1
  /\ fetchLog[1].i = 1
  /\ fetchLog[1].res.exc = "TypeError"
  /\ Len(addLog) = 2
  /\ addLog[1].res.exc = "RuntimeError"
  /\ papers[2].doi = <<"1", "0", ".", "1", "2", "3", "4", "/">>
  /\ addLog[2].res.key # None
  /\ summary = <<2, 0, 1>>

(***************************************************************************)
(* Claims about fetch_pdf inside run_pipeline (SpecPipelineFetch)          *)
(***************************************************************************)
StageTags == {"unpaywall", "sci-hub"}

\* C23: whatever fetch_pdf returns is either (None, None) or a path together
\* with one of the two stage tags, the path being the download directory
\* joined with the file name made of the title and the normalized DOI; and so
\* every add_paper call made by run_pipeline carries the "PDF source"
\* annotation exactly when it is given a file path, the annotation naming the
\* tag and the path being the one fetch_pdf returned for that record.
C23_PathIffTag ==
  /\ f_pc = "done" =>
       \/ outcome = Fail
       \/ /\ outcome[1] = <<"pdf_download_dir", _safe_filename(title, normalize_doi(doi))>>
          /\ outcome[2] \in StageTags
  /\ \A j \in 1..Len(addLog) :
       /\ (addLog[j].metadata.extra # None) <=> (addLog[j].pdf_path # None)
       /\ addLog[j].pdf_path # None =>
            \E k \in 1..Len(fetchLog) :
              /\ fetchLog[k].i = addLog[j].i
              /\ fetchLog[k].res.path = addLog[j].pdf_path
              /\ addLog[j].metadata.extra = <<"PDF source: ", fetchLog[k].res.tag>>
              /\ fetchLog[k].res.tag[1] \in StageTags

\* a record got its file from a mirror and was handed over with the path
\* fetch_pdf returned and the mirror's tag
C23_Witness ==
  /\ p_pc = "done"
  /\ Len(addLog) = 1
  /\ Len(fetchLog) = 1
  /\ addLog[1].pdf_path = fetchLog[1].res.path
  /\ addLog[1].pdf_path =
       <<"pdf_download_dir", _safe_filename(papers[1].title, PaperDoi(papers[1]))>>
  /\ addLog[1].metadata.extra = <<"PDF source: ", <<"sci-hub">>>>

(***************************************************************************)
(* Claims about doi_utils.py (SpecDoi)                                     *)
(***************************************************************************)
Punctuation == {".", ",", ";", ":", ")"}

\* t is 10. + 4 to 9 digits + / + one or more characters, none of them
\* whitespace
WellFormed(t) ==
  \E k \in 4..9 :
    /\ Len(t) >= k + 5
    /\ t[1] = "1" /\ t[2] = "0" /\ t[3] = "."
    /\ \A i \in 4..(3 + k) : t[i] \in Digits
    /\ t[4 + k] = "/"
    /\ \A i \in (5 + k)..Len(t) : t[i] \notin Whitespace

\* w is nothing or one of the resolver prefixes, in any case of letters
IsResolverWrapper(w) == w = <<>> \/ \E p \in 1..Len(prefixes) : Lower(w) = Lower(prefixes[p])

StartsWithPrefix(t) ==
  \E p \in 1..Len(prefixes) :
    Len(t) >= Len(prefixes[p]) /\ Lower(SubSeq(t, 1, Len(prefixes[p]))) = Lower(prefixes[p])

\* s without the whitespace around it
Trimmed(s) ==
  IF \A i \in 1..Len(s) : s[i] \in Whitespace THEN <<>>
  ELSE LET a == CHOOSE i \in 1..Len(s) :
                  s[i] \notin Whitespace /\ \A j \in 1..(i - 1) : s[j] \in Whitespace
           b == CHOOSE i \in 1..Len(s) :
                  s[i] \notin Whitespace /\ \A j \in (i + 1)..Len(s) : s[j] \in Whitespace
       IN SubSeq(s, a, b)

\* the part of t after its last "/", and the part before that "/"
LastSlash(t) == CHOOSE i \in 1..Len(t) : t[i] = "/" /\ \A j \in (i + 1)..Len(t) : t[j] # "/"

FinalSegment(t) == SubSeq(t, LastSlash(t) + 1, Len(t))

BeforeFinalSegment(t) == SubSeq(t, 1, LastSlash(t) - 1)

ShortNumeric(seg) ==
  /\ Len(seg) >= 6
  /\ Len(seg) <= 8
  /\ \A i \in 1..Len(seg) : seg[i] \in Digits

\* C13 as claimed: for an argument made of a well-formed DOI, with or
\* without a resolver prefix in front and a query string behind, normalize_doi
\* returns that DOI, prefix and query string removed, and never None.
C13_NormalizeYieldsBareDoi ==
  ( /\ n_pc = "normalize_doi"
    /\ n_parts.pad = <<>>
    /\ IsResolverWrapper(n_parts.w)
    /\ WellFormed(n_parts.core)
    /\ \A i \in 1..Len(n_parts.core) : n_parts.core[i] \notin {"&", "?"} )
  => n_out = n_parts.core

\* C14 as claimed: a value returned by clean_doi, when not None, does not
\* start with a resolver prefix, holds no "&" and no "?", does not end with
\* one of . , ; : ) and does not end with a "/" and 6 to 8 digits.
C14_CleanedIsClean ==
  (n_pc = "clean_doi" /\ n_out # None) =>
    /\ ~StartsWithPrefix(n_out)
    /\ \A i \in 1..Len(n_out) : n_out[i] \notin {"&", "?"}
    /\ n_out[Len(n_out)] \notin Punctuation
    /\ "/" \in Range(n_out) => ~ShortNumeric(FinalSegment(n_out))

\* the text is left as it is by the steps of clean_doi that come before the
\* fragment rule, and has a "/"
Bare(t) ==
  /\ t # <<>>
  /\ t[1] \notin Whitespace
  /\ t[Len(t)] \notin Whitespace \cup Punctuation
  /\ \A i \in 1..Len(t) : t[i] \notin {"&", "?"}
  /\ ~StartsWithPrefix(t)
  /\ "/" \in Range(t)

\* C15: clean_doi cuts the text after the last "/" of the cleaned
\* identifier, with that "/", exactly when it is 6 to 8 characters long and
\* all digits; a numeric segment of up to 5 or of 9 and more digits and a
\* segment that is not numeric stay; 10.1177/2041905820911746 comes back
\* unchanged and 10.1108/REPS-12-2024-0104/1307371 loses /1307371.
C15_FragmentRule ==
  /\ ( /\ n_pc = "clean_doi"
       /\ IsResolverWrapper(n_parts.w)
       /\ Bare(n_parts.core) )
     => IF ShortNumeric(FinalSegment(n_parts.core))
        THEN n_out = (IF BeforeFinalSegment(n_parts.core) = <<>> THEN None
                      ELSE BeforeFinalSegment(n_parts.core))
        ELSE n_out = n_parts.core
  /\ (n_pc = "clean_doi" /\ n_text = test_cases[5][1]) => n_out = n_text
  /\ (n_pc = "clean_doi" /\ n_text = test_cases[4][1]) =>
       n_out = SubSeq(n_text, 1, Len(n_text) - 8)

\* the 7-digit fragment of the example of line 166 was cut
C15_Witness ==
  /\ n_pc = "clean_doi"
  /\ n_parts.w = prefixes[1]
  /\ n_parts.q = <<"?", "x">>
  /\ n_parts.core = test_cases[4][1]
  /\ n_out = test_cases[4][2]

\* C16: is_valid_doi is true exactly for the texts that, with the
\* whitespace around them taken off and nothing else changed, are 10. + 4 to
\* 9 digits + / + one or more non-whitespace characters from end to end.
C16_ValidIffFullMatch ==
  n_pc = "is_valid_doi" => (n_valid <=> WellFormed(Trimmed(n_text)))

\* a padded DOI with a 9-digit registrant was accepted
C16_Witness ==
  /\ n_pc = "is_valid_doi"
  /\ n_valid
  /\ n_parts.pad = <<" ">>
  /\ n_parts.w = <<>>
  /\ n_parts.q = <<"?", "x">>
  /\ Len(n_text) > 16
  /\ \A i \in 5..13 : n_text[i] \in Digits

\* C25: clean_doi and normalize_doi are idempotent: called on a value they
\* returned, they return that value.
C25_Idempotent ==
  n_pc \in {"clean_doi again", "normalize_doi again"} => n_again = n_out

(***************************************************************************)
(* Claims about the session of _build_session (SpecSession)                *)
(***************************************************************************)
\* C20 as claimed: an attempt is followed by another one only when the
\* method is GET or HEAD and the attempt ended in a connection or read
\* failure or in a response with status 429, 500, 502, 503 or 504; a 4xx
\* status other than 429 is never followed by another attempt; no request is
\* attempted more than 4 times.
C20_RetryOnlyTransient ==
  /\ Len(r_history) <= 4
  /\ \A i \in 1..(Len(r_history) - 1) :
       /\ r_method \in {"GET", "HEAD"}
       /\ \/ r_history[i].kind \in {"connect_error", "read_error"}
          \/ r_history[i].status \in {429, 500, 502, 503, 504}
       /\ ~(r_history[i].status \in 400..499 /\ r_history[i].status # 429)

(***************************************************************************)
(* Claims about _download_pdf (SpecDownload)                               *)
(***************************************************************************)
DownloadVerdict ==
  LET pdf == \/ Contains(Lower(d_resp.ctype), <<"p", "d", "f">>)
             \/ (Len(d_resp.body) >= 5 /\ SubSeq(d_resp.body, 1, 5) = <<"%", "P", "D", "F", "-">>)
  IN /\ d_ok <=> pdf
     /\ pdf => d_file = d_resp.body
     /\ ~pdf => d_file = d_before

\* C10 as claimed: for every response received without transport error the
\* file is written and true returned exactly when the content type contains
\* "pdf" or the body starts with %PDF-; the file is then the whole body;
\* otherwise false is returned and the destination is left as it was.
C10_SavedIffPdf ==
  (d_calls = 1 /\ d_resp.exc = "none" /\ d_resp.failAt = -1) => DownloadVerdict

\* C10 amended: the same for every response with a status below 400
\* received without transport error.
C10_SavedIffPdfStatusOk ==
  (d_calls = 1 /\ d_resp.exc = "none" /\ d_resp.failAt = -1 /\ d_resp.status < 400)
    => DownloadVerdict

\* a PDF served as text/html replaced an older file, tail included
C10_Witness ==
  /\ d_calls = 1
  /\ d_ok
  /\ d_resp.ctype = <<"t", "e", "x", "t", "/", "h", "t", "m", "l">>
  /\ d_resp.body = <<"%", "P", "D", "F", "-", "y">>
  /\ d_file = d_resp.body
  /\ d_before = OldFile

\* C24: whenever _download_pdf returns false, a transport error in the middle
\* of the stream included, the destination is as it was before the call:
\* no file was created and an older file is untouched.
C24_FalseLeavesDestination ==
  (d_calls = 1 /\ ~d_ok) => d_file = d_before

(***************************************************************************)
(* Claims about _safe_filename (SpecFilename)                              *)
(***************************************************************************)
Extension == <<".", "p", "d", "f">>

\* the name is a title part of k characters, "_", an identifier part and ".pdf"
SplitsAt(name, k) ==
  /\ Len(name) >= k + 1 + Len(Extension)
  /\ name[k + 1] = "_"
  /\ Drop(name, Len(name) - Len(Extension)) = Extension

\* C21: every name _safe_filename returns consists of characters from
\* [A-Za-z0-9._-] only and is a title part of at most 100 characters, "_", an
\* identifier part of at most 50 characters and ".pdf"; an empty title gives
\* the title part "paper".  (That equal arguments give equal names is how an
\* operator behaves and is not part of what is checked here.)
C21_SafeFilename ==
  sf_pc = "done" =>
    /\ \A i \in 1..Len(sf_name) : sf_name[i] \in SafeChars
    /\ \E k \in 1..TitleCap :
         /\ SplitsAt(sf_name, k)
         /\ Len(sf_name) - k - 1 - Len(Extension) <= DoiCap
    /\ sf_title = <<>> => Take(sf_name, 6) = <<"p", "a", "p", "e", "r", "_">>

\* a title and an identifier longer than the cuts, with characters outside the set,
\* have been named
C21_Witness ==
  /\ sf_pc = "done"
  /\ Len(sf_title) > TitleCap
  /\ Len(sf_doi) > DoiCap
  /\ \E i \in 1..Len(sf_doi) : sf_doi[i] \notin SafeChars
  /\ Len(sf_name) = TitleCap + 1 + DoiCap + Len(Extension)

(***************************************************************************)
(* Specifications                                                          *)
(***************************************************************************)
SearchIdle ==
  /\ pc = "idle"
  /\ max_results = 0
  /\ results = <<>>
  /\ start = 0
  /\ attempts = 0
  /\ reqLog = <<>>
  /\ served = <<>>
  /\ lastResp = NoResp
  /\ lastSleep = NoSleep
  /\ returned = None

DownloadIdle ==
  /\ d_file = NoFile
  /\ d_before = NoFile
  /\ d_resp = NoDlResp
  /\ d_ok = FALSE
  /\ d_calls = 1

FetchIdle ==
  /\ f_pc = "idle"
  /\ doi = <<>>
  /\ title = <<>>
  /\ config = NoConfig
  /\ cleaned_doi = None
  /\ cfgLoaded = FALSE
  /\ sessionBuilt = FALSE
  /\ payload = <<>>
  /\ deduped_urls = <<>>
  /\ ci = 0
  /\ mi = 0
  /\ dest_file = NoFile
  /\ netLog = <<>>
  /\ outcome = None

PipelineIdle ==
  /\ p_pc = "idle"
  /\ p_config = FALSE
  /\ collection = None
  /\ papers = <<>>
  /\ p_i = 0
  /\ pdf_path = None
  /\ source = None
  /\ pdf_success_count = 0
  /\ zotero_success_count = 0
  /\ fetchLog = <<>>
  /\ addLog = <<>>
  /\ summary = <<>>
  /\ p_ret = None

DoiIdle ==
  /\ n_pc = "idle"
  /\ n_parts = [pad |-> <<>>, w |-> <<>>, core |-> <<>>, q |-> <<>>]
  /\ n_text = <<>>
  /\ n_out = None
  /\ n_valid = FALSE
  /\ n_again = None

SessionIdle ==
  /\ r_pc = "idle"
  /\ r_method = "GET"
  /\ r_total = RetryTotal
  /\ r_connect = RetryConnect
  /\ r_read = RetryRead
  /\ r_status = RetryStatus
  /\ r_history = <<>>
  /\ r_result = "none"

FilenameIdle ==
  /\ sf_pc = "idle"
  /\ sf_title = <<>>
  /\ sf_doi = <<>>
  /\ sf_name = None

InitSearch == SearchInit /\ DownloadIdle /\ FetchIdle /\ PipelineIdle /\ DoiIdle /\ SessionIdle
  /\ FilenameIdle

SpecSearch == InitSearch /\ [][SearchNext]_vars

\* search_scholar is one thread of blocking calls, each of which comes back:
\* the request has a timeout and every sleep is at most BackoffCap
\* long, so a step that can be taken is taken
SpecSearchFair == InitSearch /\ [][SearchNext]_vars /\ WF_vars(SearchNext)

DownloadNext == Download

InitDownload == DownloadInit /\ SearchIdle /\ FetchIdle /\ PipelineIdle /\ DoiIdle /\ SessionIdle
  /\ FilenameIdle

SpecDownload == InitDownload /\ [][DownloadNext]_vars

InitFetch == FetchInit /\ SearchIdle /\ DownloadIdle /\ PipelineIdle /\ DoiIdle /\ SessionIdle
  /\ FilenameIdle

SpecFetch == InitFetch /\ [][FetchNext]_vars

InitPipeline == PipelineInit /\ SearchIdle /\ DownloadIdle /\ FetchIdle /\ DoiIdle /\ SessionIdle
  /\ FilenameIdle

SpecPipeline == InitPipeline /\ [][PipelineNext]_vars

InitDoi == DoiInit /\ SearchIdle /\ DownloadIdle /\ FetchIdle /\ PipelineIdle /\ SessionIdle
  /\ FilenameIdle

SpecDoi == InitDoi /\ [][DoiNext]_vars

InitSession ==
  SessionInit /\ SearchIdle /\ DownloadIdle /\ FetchIdle /\ PipelineIdle /\ DoiIdle
  /\ FilenameIdle

SpecSession == InitSession /\ [][SessionNext]_vars

InitPipelineFetch ==
  /\ PipelineInit
  /\ Len(papers) <= MaxFetchedPapers
  /\ SearchIdle /\ DownloadIdle /\ FetchIdle /\ DoiIdle /\ SessionIdle
  /\ FilenameIdle

SpecPipelineFetch == InitPipelineFetch /\ [][PipelineFetchNext]_vars

InitFilename ==
  FilenameInit /\ SearchIdle /\ DownloadIdle /\ FetchIdle /\ PipelineIdle /\ DoiIdle
  /\ SessionIdle

SpecFilename == InitFilename /\ [][FilenameNext]_vars

=============================================================================
